---- MODULE Spec2Model ----
(***************************************************************************)
(* A model of src/connection.py: class Connection (socket lifecycle, the   *)
(* background __listen thread, CRLF framing, listener dispatch) and the    *)
(* environment it talks to (the peer's writes and close, the platform's    *)
(* behaviour of a recv() whose socket another thread closes).              *)
(*                                                                         *)
(* Bytes are sequences of integers (13 = CR, 10 = LF).  Sockets and        *)
(* threads are numbered in creation order; 0 stands for None.  Listener    *)
(* objects are 1..MaxListeners, and a set iterates in slot order, which    *)
(* for objects without hash collisions and without a table resize (fewer   *)
(* than five entries) is a fixed order over the objects: here their        *)
(* number.                                                                 *)
(***************************************************************************)
EXTENDS Integers, Sequences, FiniteSets, TLC

\* ---------------------------------------------------------------- bounds
MaxSockets == 2
MaxListeners == 2
MaxPeerSends == 2
MaxPieces == 4

\* ------------------------------------------------------ program constants
CR == 13
LF == 10
buffer_size == 4096

Sockets == 1..MaxSockets
Threads == 1..MaxSockets
Listeners == 1..MaxListeners
\* What the peer writes in one piece under Spec: one complete line "A\r\n".
Chunks == {<<65, CR, LF>>}
\* What arrives in one piece under SpecFraming: a letter, a separator, or
\* half a separator.
Pieces == {<<65>>, <<CR>>, <<LF>>, <<CR, LF>>}
\* What the application sends: "PING", with and without its line ending, and
\* strings that are empty, end in half a line ending, or hold a 2-byte character.
PING == <<80, 73, 78, 71>>
Messages == {PING, PING \o <<CR, LF>>, <<>>, <<80, CR>>, <<233, LF>>, <<CR, LF>>}

VARIABLES
    socket,         \* Connection.__socket: 0 (None) or a socket
    is_connection_alive,  \* Connection.__is_connection_alive
    listen_thread,  \* Connection.__listen_thread: 0 (None) or a thread
    listeners,      \* Connection.__listeners
    cpc,            \* the caller's position: "idle", or "c49" inside connect
    ret,            \* the caller's last call and what it returned; for a send,
                    \* whether it returned (or raised) and what it wrote
    socks,          \* every socket object created so far
    nsock,          \* how many socket objects were created
    thread,         \* every __listen thread: position and locals
    nsent,          \* pieces the peer has written so far
    reads,          \* history: the non-empty results of recv, in order
    dispatched,     \* history: the arguments of __dispatch_listeners, in order,
                    \* each with the read (an index of reads) it came from
    removed         \* history: the listeners a remove_listener call took out and
                    \* no add_listener call put back since

vars == <<socket, is_connection_alive, listen_thread, listeners, cpc, ret,
          socks, nsock, thread, nsent, reads, dispatched, removed>>

conn == <<socket, is_connection_alive, listen_thread>>
hist == <<reads, dispatched, removed>>

\* ---------------------------------------------------------------- helpers
Min(a, b) == IF a < b THEN a ELSE b

\* A socket object.  eof (history): a recv on it has returned b"".
NoSock == [state |-> "none", peerClosed |-> FALSE, inbuf |-> <<>>, timeout |-> FALSE,
           eof |-> FALSE]

\* A thread's position and locals.  rsock, intr: the socket a recv in progress
\* was called on, and whether the platform fails it.  todo: what the for loop
\* of line 163 has left.  obj, pos, used, cur: the argument of
\* __dispatch_listeners, the set iterator's position and expected size, and
\* the loop variable.  acc: what accept returned to line 146.  rd (history):
\* the read being processed, an index of reads.  stale (history): the
\* listeners that had been removed when this dispatch pass began and were not
\* added since.  zero (history): the thread's last recv returned b"" and it
\* has not tested the flag since.  src
\* (history): the socket the read being processed came from.
NoThread == [pc |-> "none", rsock |-> 0, intr |-> FALSE, todo |-> <<>>,
             obj |-> <<>>, pos |-> 0, used |-> 0, cur |-> 0, acc |-> FALSE,
             rd |-> 0, stale |-> {}, zero |-> FALSE, src |-> 0]

Running(t) == thread[t].pc \notin {"none", "done", "crashed"}

Terminated(t) == thread[t].pc \in {"done", "crashed"}

\* An uncaught exception ends the thread: nothing in __listen catches any.
Crashed == [NoThread EXCEPT !.pc = "crashed"]

\* bytes.split(b"\r\n"): the segments between non-overlapping separators,
\* scanned left to right; a trailing separator yields a last empty segment.
RECURSIVE SplitAcc(_, _)
SplitAcc(rest, seg) ==
    IF rest = <<>> THEN <<seg>>
    ELSE IF Len(rest) >= 2 /\ rest[1] = CR /\ rest[2] = LF
         THEN <<seg>> \o SplitAcc(SubSeq(rest, 3, Len(rest)), <<>>)
         ELSE SplitAcc(Tail(rest), Append(seg, Head(rest)))

Split(data) == SplitAcc(data, <<>>)

\* A slice that drops the last element, [:-1].
SliceAllButLast(list) == SubSeq(list, 1, Len(list) - 1)

\* The slice [:1] of line 163.
Slice(list) == SubSeq(list, 1, Min(1, Len(list)))

\* Connection._process_data: the default hook returns its argument.
_process_data(data) == data

\* set.add / set.remove on __listeners.
SetAdd(S, l) == S \cup {l}

\* A remove that leaves the listener in the set.
SetRemoveKeeps(S, l) == S

SetRemove(S, l) == S \ {l}

\* A dispatch that calls receive whatever accept returned.
AfterAcceptAlways(r) == "receive"

\* The branch of line 146 on accept's result.
AfterAccept(r) == IF r THEN "receive" ELSE "next"

\* A socket object nothing can use any more keeps no state: one that was closed,
\* or never connected, or that __socket no longer names (CPython frees it, which
\* closes it), unless a recv in progress still holds the connection.
Held(th, s) == \E t \in Threads : th[t].pc = "recv" /\ th[t].rsock = s /\ ~th[t].intr

Tidy(ss, th, cur) ==
    [s \in Sockets |->
        IF ss[s].state = "none" \/ Held(th, s) THEN ss[s]
        ELSE IF ss[s].state = "open"
             THEN IF s = cur THEN ss[s] ELSE [NoSock EXCEPT !.state = "freed"]
             ELSE [NoSock EXCEPT !.state = ss[s].state]]

\* A connect without its guard.
MayConnectAlways == TRUE

\* connect's guard, line 38.
MayConnect == ~is_connection_alive

\* An error handler that leaves the flag set.
AfterSocketErrorAlive == TRUE

\* Line 48: the flag after socket.error was caught.
AfterSocketError == FALSE

\* A disconnect that closes whatever socket there is.
MayDisconnectAlways == socket # 0

\* disconnect's guard, line 61.
MayDisconnect == is_connection_alive

\* A close that leaves the socket open.
SocketCloseNothing(ss, s) == ss

\* socket.close(), line 62.
SocketClose(ss, s) == [ss EXCEPT ![s].state = "closed"]

\* str.endswith(suffix), on strings of code points.
endswith(message, suffix) ==
    /\ Len(message) >= Len(suffix)
    /\ SubSeq(message, Len(message) - Len(suffix) + 1, Len(message)) = suffix

\* bytes(str, "utf-8"), for code points below 2048: one byte below 128, two
\* bytes from there on.
RECURSIVE utf8(_)
utf8(str) ==
    IF str = <<>> THEN <<>>
    ELSE LET c == Head(str)
         IN (IF c < 128 THEN <<c>> ELSE <<192 + (c \div 64), 128 + (c % 64)>>)
                \o utf8(Tail(str))

\* A send that appends CR-LF whenever crlf_ending is set.
PayloadAlwaysAppends(message, crlf_ending) ==
    utf8(IF crlf_ending THEN message \o <<CR, LF>> ELSE message)

\* The argument send passes to send_data, line 98.
Payload(message, crlf_ending) ==
    utf8(IF crlf_ending /\ ~endswith(message, <<CR, LF>>)
         THEN message \o <<CR, LF>> ELSE message)

\* ------------------------------------------------------------------ Init
Init ==
    /\ socket = 0
    /\ is_connection_alive = FALSE
    /\ listen_thread = 0
    /\ listeners = {}
    /\ cpc = "idle"
    /\ ret = [op |-> "none", val |-> FALSE]
    /\ socks = [s \in Sockets |-> NoSock]
    /\ nsock = 0
    /\ thread = [t \in Threads |-> NoThread]
    /\ nsent = 0
    /\ reads = <<>>
    /\ dispatched = <<>>
    /\ removed = {}

\* ------------------------------------------------------- Connection.connect
\* Lines 38, 51: already alive, so return False.
ConnectRefused ==
    /\ cpc = "idle"
    /\ ~MayConnect
    /\ ret' = [op |-> "connect", val |-> FALSE]
    /\ UNCHANGED <<conn, listeners, cpc, socks, nsock, thread, nsent, hist>>

\* Lines 38-45: the socket is created, given the timeout and connected; the flag
\* is set and the thread started.  The return at line 49 reads the flag again.
ConnectOk(tm) ==
    /\ cpc = "idle"
    /\ MayConnect
    /\ nsock < MaxSockets
    /\ LET s == nsock + 1 IN
        /\ nsock' = s
        /\ socket' = s
        /\ socks' = Tidy([socks EXCEPT ![s] = [NoSock EXCEPT !.state = "open", !.timeout = tm]],
                         thread, s)
        /\ is_connection_alive' = TRUE
        /\ listen_thread' = s
        /\ thread' = [thread EXCEPT ![s] = [NoThread EXCEPT !.pc = "while"]]
    /\ cpc' = "c49"
    /\ UNCHANGED <<listeners, ret, nsent, hist>>

\* Lines 40-42 raise socket.error in connect(): the new socket stays in __socket,
\* lines 46-49 clear the flag and return it.
ConnectFail ==
    /\ cpc = "idle"
    /\ MayConnect
    /\ nsock < MaxSockets
    /\ LET s == nsock + 1 IN
        /\ nsock' = s
        /\ socket' = s
        /\ socks' = Tidy([socks EXCEPT ![s] = [NoSock EXCEPT !.state = "unconnected"]],
                         thread, s)
    /\ is_connection_alive' = AfterSocketError
    /\ ret' = [op |-> "connect", val |-> is_connection_alive']
    /\ UNCHANGED <<listen_thread, listeners, cpc, thread, nsent, hist>>

\* Line 40 itself raises socket.error: no socket object, __socket keeps its value.
ConnectNoSocket ==
    /\ cpc = "idle"
    /\ MayConnect
    /\ is_connection_alive' = AfterSocketError
    /\ ret' = [op |-> "connect", val |-> is_connection_alive']
    /\ UNCHANGED <<socket, listen_thread, listeners, cpc, socks, nsock, thread, nsent, hist>>

\* Line 49: return self.__is_connection_alive.
ConnectReturn ==
    /\ cpc = "c49"
    /\ cpc' = "idle"
    /\ ret' = [op |-> "connect", val |-> is_connection_alive]
    /\ UNCHANGED <<conn, listeners, socks, nsock, thread, nsent, hist>>

\* ---------------------------------------------------- Connection.disconnect
\* Lines 61-64.  A recv() in progress on the socket another thread closes is
\* platform-dependent: wake says whether the platform fails it (it raises
\* OSError) or leaves it waiting on the connection.
Disconnect(wake) ==
    /\ cpc = "idle"
    /\ MayDisconnect
    /\ thread' = [t \in Threads |->
                    IF thread[t].pc = "recv" /\ thread[t].rsock = socket
                    THEN [thread[t] EXCEPT !.intr = wake]
                    ELSE thread[t]]
    /\ socks' = Tidy(SocketClose(socks, socket), thread', socket)
    /\ is_connection_alive' = FALSE
    /\ ret' = [op |-> "disconnect", val |-> TRUE]
    /\ UNCHANGED <<socket, listen_thread, listeners, cpc, nsock, nsent, hist>>

\* A refused disconnect that drops the listeners.
DisconnectRefusedClears ==
    /\ cpc = "idle"
    /\ ~MayDisconnect
    /\ ret' = [op |-> "disconnect", val |-> FALSE]
    /\ listeners' = {}
    /\ UNCHANGED <<conn, cpc, socks, nsock, thread, nsent, hist>>

\* Lines 61, 65.
DisconnectRefused ==
    /\ cpc = "idle"
    /\ ~MayDisconnect
    /\ ret' = [op |-> "disconnect", val |-> FALSE]
    /\ UNCHANGED <<conn, listeners, cpc, socks, nsock, thread, nsent, hist>>

\* ------------------------------------------- Connection.is_connection_alive
\* Line 75.
GetIsConnectionAlive ==
    /\ cpc = "idle"
    /\ ret' = [op |-> "is_connection_alive", val |-> is_connection_alive]
    /\ UNCHANGED <<conn, listeners, cpc, socks, nsock, thread, nsent, hist>>

\* ------------------------------------------- Connection.send_data / send
\* Line 85: self.__socket.send(data), whatever the flag says.  On a connected
\* socket it writes the bytes and returns (ok); the first write after the peer
\* has closed still returns, later ones raise BrokenPipeError.  On None it
\* raises AttributeError, on a closed or unconnected socket OSError.
SocketSend(op, message, crlf_ending, data, ok) ==
    /\ cpc = "idle"
    /\ IF socket = 0 THEN ~ok
       ELSE IF socks[socket].state # "open" THEN ~ok
       ELSE IF socks[socket].peerClosed THEN ok \in BOOLEAN
       ELSE ok
    /\ ret' = [op |-> op, val |-> ok, message |-> message, crlf_ending |-> crlf_ending,
               wrote |-> IF ok THEN data ELSE <<>>, sock |-> IF ok THEN socket ELSE 0]
    /\ UNCHANGED <<conn, listeners, cpc, socks, nsock, thread, nsent, hist>>

\* Lines 77-85.
SendData(data, ok) == SocketSend("send_data", <<>>, FALSE, data, ok)

\* Lines 87-98: send builds the bytes and calls send_data.
Send(message, crlf_ending, ok) ==
    SocketSend("send", message, crlf_ending, Payload(message, crlf_ending), ok)

\* ------------------------------------------- add_listener / remove_listener
\* Line 109.
AddListener(l) ==
    /\ listeners' = SetAdd(listeners, l)
    /\ removed' = removed \ {l}
    /\ thread' = [t \in Threads |-> [thread[t] EXCEPT !.stale = @ \ {l}]]
    /\ UNCHANGED <<conn, cpc, ret, socks, nsock, nsent, reads, dispatched>>

\* Line 120, the listener being in the set.
RemoveListener(l) ==
    /\ l \in listeners
    /\ listeners' = SetRemove(listeners, l)
    /\ removed' = removed \cup {l}
    /\ UNCHANGED <<conn, cpc, ret, socks, nsock, thread, nsent, reads, dispatched>>

\* Line 120: set.remove of a missing element raises KeyError and changes nothing.
RemoveMissing(l) ==
    /\ l \notin listeners
    /\ UNCHANGED vars

\* ------------------------------------------------------------------ peer
\* The peer's bytes reach a connection that is open, or that was closed
\* locally while a recv() in progress still holds it.
Reachable(s) ==
    \/ socks[s].state = "open"
    \/ socks[s].state = "closed" /\ Held(thread, s)

PeerSend(s, bytes) ==
    /\ Reachable(s)
    /\ ~socks[s].peerClosed
    /\ socks' = [socks EXCEPT ![s].inbuf = @ \o bytes]
    /\ nsent' = nsent + 1
    /\ UNCHANGED <<conn, listeners, cpc, ret, nsock, thread, hist>>

PeerClose(s) ==
    /\ Reachable(s)
    /\ ~socks[s].peerClosed
    /\ socks' = [socks EXCEPT ![s].peerClosed = TRUE]
    /\ UNCHANGED <<conn, listeners, cpc, ret, nsock, thread, nsent, hist>>

\* ---------------------------------------------------- Connection.__listen
\* Line 159.
While(t) ==
    /\ thread[t].pc = "while"
    /\ thread' = [thread EXCEPT ![t] = IF is_connection_alive
                                       THEN [@ EXCEPT !.pc = "call", !.zero = FALSE]
                                       ELSE [NoThread EXCEPT !.pc = "done"]]
    /\ UNCHANGED <<conn, listeners, cpc, ret, socks, nsock, nsent, hist>>

\* Line 160: recv is called on whatever __socket is now; on a closed or
\* unconnected socket it raises OSError at once.
CallRecv(t) ==
    /\ thread[t].pc = "call"
    /\ thread' = [thread EXCEPT ![t] =
                    IF socks[socket].state = "open"
                    THEN [@ EXCEPT !.pc = "recv", !.rsock = socket, !.intr = FALSE]
                    ELSE Crashed]
    /\ UNCHANGED <<conn, listeners, cpc, ret, socks, nsock, nsent, hist>>

\* Lines 164 and 145 for the next message of the for loop of line 163: it is
\* decoded and __dispatch_listeners creates the set iterator; with no message
\* left the while loop goes round.
NextMessage(th, todo) ==
    IF todo = <<>>
    THEN [th EXCEPT !.pc = "while", !.todo = <<>>, !.obj = <<>>, !.pos = 0,
                    !.used = 0, !.cur = 0, !.rd = 0, !.stale = {}, !.src = 0]
    ELSE [th EXCEPT !.pc = "next", !.todo = Tail(todo),
                    !.obj = _process_data(Head(todo)), !.pos = 0,
                    !.used = Cardinality(listeners), !.cur = 0,
                    !.stale = removed]

Dispatched(rd, todo) ==
    IF todo = <<>> THEN dispatched
    ELSE Append(dispatched, [rd |-> rd, msg |-> _process_data(Head(todo))])

\* Lines 160-164: recv returns what has arrived, at most buffer_size bytes; it
\* is split, sliced, and the first message's dispatch begins.
RecvData(t) ==
    /\ thread[t].pc = "recv"
    /\ ~thread[t].intr
    /\ LET s == thread[t].rsock
           n == Min(Len(socks[s].inbuf), buffer_size)
           data == SubSeq(socks[s].inbuf, 1, n)
           todo == Slice(Split(data))
       IN  /\ n > 0
           /\ thread' = [thread EXCEPT ![t] =
                    NextMessage([@ EXCEPT !.rsock = 0, !.rd = Len(reads) + 1,
                                            !.src = s], todo)]
           /\ socks' = Tidy([socks EXCEPT ![s].inbuf = SubSeq(@, n + 1, Len(@))],
                            thread', socket)
           /\ reads' = Append(reads, data)
           /\ dispatched' = Dispatched(Len(reads) + 1, todo)
    /\ UNCHANGED <<conn, listeners, cpc, ret, nsock, nsent, removed>>

\* Lines 160-161, 165-167: recv returns b"", the flag is cleared.
RecvEmpty(t) ==
    /\ thread[t].pc = "recv"
    /\ ~thread[t].intr
    /\ socks[thread[t].rsock].inbuf = <<>>
    /\ socks[thread[t].rsock].peerClosed
    /\ is_connection_alive' = FALSE
    /\ thread' = [thread EXCEPT ![t].pc = "while", ![t].rsock = 0, ![t].zero = TRUE]
    /\ socks' = Tidy([socks EXCEPT ![thread[t].rsock].eof = TRUE], thread', socket)
    /\ UNCHANGED <<socket, listen_thread, listeners, cpc, ret, nsock, nsent, hist>>

\* Line 160: the platform fails the recv whose socket was closed under it.
RecvError(t) ==
    /\ thread[t].pc = "recv"
    /\ thread[t].intr
    /\ thread' = [thread EXCEPT ![t] = Crashed]
    /\ UNCHANGED <<conn, listeners, cpc, ret, socks, nsock, nsent, hist>>

\* Line 160 with the timeout of line 41: nothing arrived in time, recv raises
\* socket.timeout.
RecvTimeout(t) ==
    /\ thread[t].pc = "recv"
    /\ ~thread[t].intr
    /\ socks[thread[t].rsock].timeout
    /\ socks[thread[t].rsock].inbuf = <<>>
    /\ ~socks[thread[t].rsock].peerClosed
    /\ thread' = [thread EXCEPT ![t] = Crashed]
    /\ socks' = Tidy(socks, thread', socket)
    /\ UNCHANGED <<conn, listeners, cpc, ret, nsock, nsent, hist>>

\* Line 145: the set iterator's next.  It raises RuntimeError when the set's
\* size is not the size it had when the iterator was created; otherwise it
\* yields the next entry after its position, or ends the loop, and the for
\* loop of line 163 goes on.
IterNext(t) ==
    /\ thread[t].pc = "next"
    /\ LET ahead == {l \in listeners : l > thread[t].pos}
           todo == thread[t].todo
       IN  /\ thread' = [thread EXCEPT ![t] =
                IF thread[t].used # Cardinality(listeners) THEN Crashed
                ELSE IF ahead = {} THEN NextMessage(@, todo)
                ELSE LET l == CHOOSE x \in ahead : \A y \in ahead : x <= y
                     IN [@ EXCEPT !.pc = "accept", !.cur = l, !.pos = l]]
           /\ dispatched' =
                IF thread[t].used = Cardinality(listeners) /\ ahead = {}
                THEN Dispatched(thread[t].rd, todo) ELSE dispatched
    /\ UNCHANGED <<conn, listeners, cpc, ret, socks, nsock, nsent, reads, removed>>

\* Line 146: listener.accept(obj) returns True or False.
Accept(t, r) ==
    /\ thread[t].pc = "accept"
    /\ thread' = [thread EXCEPT ![t].pc = AfterAccept(r), ![t].acc = r]
    /\ UNCHANGED <<conn, listeners, cpc, ret, socks, nsock, nsent, hist>>

\* Line 147: listener.receive(obj) returns.
Receive(t) ==
    /\ thread[t].pc = "receive"
    /\ thread' = [thread EXCEPT ![t].pc = "next", ![t].acc = FALSE]
    /\ UNCHANGED <<conn, listeners, cpc, ret, socks, nsock, nsent, hist>>

\* Lines 146, 147: the listener's callback raises; nothing catches it.
ListenerRaises(t) ==
    /\ thread[t].pc \in {"accept", "receive"}
    /\ thread' = [thread EXCEPT ![t] = Crashed]
    /\ UNCHANGED <<conn, listeners, cpc, ret, socks, nsock, nsent, hist>>

ThreadStep(t) ==
    \/ While(t)
    \/ CallRecv(t)
    \/ RecvData(t)
    \/ RecvEmpty(t)
    \/ RecvError(t)
    \/ RecvTimeout(t)
    \/ IterNext(t)
    \/ \E r \in BOOLEAN : Accept(t, r)
    \/ Receive(t)
    \/ ListenerRaises(t)

\* ------------------------------------------------------- specifications
Next ==
    \/ ConnectRefused
    \/ \E tm \in BOOLEAN : ConnectOk(tm)
    \/ ConnectFail
    \/ ConnectNoSocket
    \/ ConnectReturn
    \/ \E wake \in BOOLEAN : Disconnect(wake)
    \/ DisconnectRefused
    \/ GetIsConnectionAlive
    \/ \E c \in Chunks, ok \in BOOLEAN : SendData(c, ok)
    \/ \E ok \in BOOLEAN : Send(PING, TRUE, ok)
    \/ \E l \in Listeners : AddListener(l)
    \/ \E l \in Listeners : RemoveListener(l)
    \/ \E l \in Listeners : RemoveMissing(l)
    \/ \E s \in Sockets, c \in Chunks : nsent < MaxPeerSends /\ PeerSend(s, c)
    \/ \E s \in Sockets : PeerClose(s)
    \/ \E t \in Threads : ThreadStep(t)

Spec == Init /\ [][Next]_vars

\* Dispatch alone: the first connection, its receive task, and everything the
\* application and the peer can do to them.
NextDispatch ==
    \/ ConnectRefused
    \/ \E tm \in BOOLEAN : nsock = 0 /\ ConnectOk(tm)
    \/ ConnectReturn
    \/ \E wake \in BOOLEAN : Disconnect(wake)
    \/ DisconnectRefused
    \/ \E l \in Listeners : AddListener(l)
    \/ \E l \in Listeners : RemoveListener(l)
    \/ \E l \in Listeners : RemoveMissing(l)
    \/ \E c \in Chunks : nsent < MaxPeerSends /\ PeerSend(1, c)
    \/ PeerClose(1)
    \/ ThreadStep(1)

SpecDispatch == Init /\ [][NextDispatch]_vars

\* The connection's life alone: every connect, disconnect and reconnect, the
\* receive tasks they start and leave behind, and a peer that sends nothing
\* before it closes.
LifeStep(t) ==
    \/ While(t)
    \/ CallRecv(t)
    \/ RecvEmpty(t)
    \/ RecvError(t)
    \/ RecvTimeout(t)

NextLifecycle ==
    \/ ConnectRefused
    \/ \E tm \in BOOLEAN : ConnectOk(tm)
    \/ ConnectFail
    \/ ConnectNoSocket
    \/ ConnectReturn
    \/ \E wake \in BOOLEAN : Disconnect(wake)
    \/ DisconnectRefused
    \/ \E l \in Listeners : AddListener(l)
    \/ \E l \in Listeners : RemoveListener(l)
    \/ \E l \in Listeners : RemoveMissing(l)
    \/ \E s \in Sockets : PeerClose(s)
    \/ \E t \in Threads : LifeStep(t)

SpecLifecycle == Init /\ [][NextLifecycle]_vars

\* The same without listeners: the calls that open and close the connection,
\* the peer's close, and the receive threads.
NextConnection ==
    \/ ConnectRefused
    \/ \E tm \in BOOLEAN : ConnectOk(tm)
    \/ ConnectFail
    \/ ConnectNoSocket
    \/ ConnectReturn
    \/ \E wake \in BOOLEAN : Disconnect(wake)
    \/ DisconnectRefused
    \/ \E s \in Sockets : PeerClose(s)
    \/ \E t \in Threads : LifeStep(t)

SpecConnection == Init /\ [][NextConnection]_vars

\* Sending alone: the connection's life as above, without listeners, and an
\* application that sends bytes, or any of Messages with and without
\* crlf_ending, in every state.
NextSend ==
    \/ \E tm \in BOOLEAN : ConnectOk(tm)
    \/ ConnectFail
    \/ ConnectNoSocket
    \/ ConnectReturn
    \/ \E wake \in BOOLEAN : Disconnect(wake)
    \/ \E s \in Sockets : PeerClose(s)
    \/ \E t \in Threads : LifeStep(t)
    \/ \E c \in Chunks, ok \in BOOLEAN : SendData(c, ok)
    \/ \E m \in Messages, e \in BOOLEAN, ok \in BOOLEAN : Send(m, e, ok)

SpecSend == Init /\ [][NextSend]_vars

\* Framing alone: one listener that accepts everything is registered, one
\* connection is made, and the peer's bytes arrive piece by piece, so that a
\* read returns any run of consecutive pieces.
FramingStep(t) ==
    \/ While(t)
    \/ CallRecv(t)
    \/ RecvData(t)
    \/ RecvEmpty(t)
    \/ IterNext(t)
    \/ Accept(t, TRUE)
    \/ Receive(t)

NextFraming ==
    \/ nsock = 0 /\ listeners = {} /\ AddListener(1)
    \/ nsock = 0 /\ listeners # {} /\ ConnectOk(FALSE)
    \/ ConnectReturn
    \/ \E p \in Pieces : nsent < MaxPieces /\ PeerSend(1, p)
    \/ PeerClose(1)
    \/ FramingStep(1)

SpecFraming == Init /\ [][NextFraming]_vars

\* Every operation of the connection, for an application that connects
\* again only once the receive threads of its earlier connections have ended;
\* one listener, which accepts every message, and sockets without a timeout.
NoThreadRunning == \A t \in Threads : ~Running(t)

NextFrame ==
    \/ ConnectRefused
    \/ NoThreadRunning /\ ConnectOk(FALSE)
    \/ NoThreadRunning /\ ConnectFail
    \/ NoThreadRunning /\ ConnectNoSocket
    \/ ConnectReturn
    \/ \E wake \in BOOLEAN : Disconnect(wake)
    \/ DisconnectRefused
    \/ GetIsConnectionAlive
    \/ \E c \in Chunks, ok \in BOOLEAN : SendData(c, ok)
    \/ \E ok \in BOOLEAN : Send(PING, TRUE, ok)
    \/ AddListener(1)
    \/ RemoveListener(1)
    \/ RemoveMissing(1)
    \/ \E s \in Sockets, c \in Chunks : nsent < MaxPeerSends /\ PeerSend(s, c)
    \/ \E s \in Sockets : PeerClose(s)
    \/ \E t \in Threads : FramingStep(t) \/ RecvError(t)

SpecFrame == Init /\ [][NextFrame]_vars

\* A thread that can take a step takes one: the interpreter schedules every
\* runnable thread.  Nothing obliges the caller or the peer to act.
FairSpec == Spec /\ \A t \in Threads : WF_vars(ThreadStep(t))

FairConnection == SpecConnection /\ \A t \in Threads : WF_vars(LifeStep(t))

\* ------------------------------------------------------------- the claims
EndsWithCRLF(d) == Len(d) >= 2 /\ d[Len(d) - 1] = CR /\ d[Len(d)] = LF

HasCRLF(d) == \E k \in 1..(Len(d) - 1) : d[k] = CR /\ d[k + 1] = LF

\* The complete CRLF-terminated segments of d, in order.
RECURSIVE Lines(_)
Lines(d) ==
    IF ~HasCRLF(d) THEN <<>>
    ELSE LET k == CHOOSE i \in 1..(Len(d) - 1) :
                    /\ d[i] = CR /\ d[i + 1] = LF
                    /\ \A j \in 1..(i - 1) : ~(d[j] = CR /\ d[j + 1] = LF)
         IN <<SubSeq(d, 1, k - 1)>> \o Lines(SubSeq(d, k + 2, Len(d)))

\* The messages dispatched for read i, in order.
OutOf(i) ==
    LET sel == SelectSeq(dispatched, LAMBDA e : e.rd = i)
    IN [k \in 1..Len(sel) |-> sel[k].msg]

\* Read i has been dealt with: no thread is still working on it.
Processed(i) == \A t \in Threads : thread[t].rd # i

\* Inside the while loop's body.
InLoop(t) == thread[t].pc \in {"call", "recv", "next", "accept", "receive"}

\* C1: a read made of N >= 1 complete CRLF-terminated segments has, once it
\* is dealt with, caused exactly those N segments to be dispatched, in order.
C1_EverySegmentDispatched ==
    \A i \in 1..Len(reads) :
        (EndsWithCRLF(reads[i]) /\ Processed(i)) => OutOf(i) = Lines(reads[i])

\* C2: when a segment starts a read that holds no CRLF and the next read
\* holds its rest followed by the segment's CRLF, the two reads together
\* cause exactly one message to be dispatched: the two parts joined.
C2_SplitSegmentJoined ==
    \A i \in 1..(Len(reads) - 1) :
        LET p == reads[i]
            q == reads[i + 1]
        IN  ( /\ i = 1 \/ EndsWithCRLF(reads[i - 1])
              /\ ~HasCRLF(p)
              /\ EndsWithCRLF(q)
              /\ Len(Lines(p \o q)) = 1
              /\ Processed(i) /\ Processed(i + 1) )
            => OutOf(i) \o OutOf(i + 1) = Lines(p \o q)

\* C3: while the alive flag is set a receive task is running and the socket
\* is open; and a task that runs with the flag cleared has yet to look at the
\* flag, or sits in a recv that the platform is failing: it does not wait in
\* a read.
C3_TaskRunsIffAlive ==
    /\ is_connection_alive => \E t \in Threads : Running(t)
    /\ is_connection_alive => socket # 0 /\ socks[socket].state = "open"
    /\ \A t \in Threads :
          (Running(t) /\ ~is_connection_alive /\ thread[t].pc = "recv") => thread[t].intr

\* C4: at most one receive task is inside the receive loop.
C4_OneReceiveLoop == Cardinality({t \in Threads : InLoop(t)}) <= 1

\* C5: a receive task that is running when disconnect() has returned true
\* eventually terminates.  (Thread t starts with socket t, and only
\* disconnect closes a socket, so a closed socket s >= t tells that
\* disconnect returned true after thread t had started.)
C5_TerminatesAfterDisconnect ==
    \A t \in Threads :
        ((\E s \in Sockets : s >= t /\ socks[s].state = "closed") /\ Running(t))
            ~> Terminated(t)

\* C6: a listener whose accept or receive faults does not end the receive
\* task: after the callback the task is still running.
C6_ListenerFaultIsolated ==
    [][\A t \in Threads :
          thread[t].pc \in {"accept", "receive"} => thread'[t].pc # "crashed"]_vars

\* C7: receive is never invoked on a listener for a message whose dispatch
\* began after remove_listener returned for it (and before it was added again).
C7_RemovedNeverReceives ==
    \A t \in Threads :
        thread[t].pc = "receive" => thread[t].cur \notin thread[t].stale

\* A dispatch pass that began after a removal has reached a receive call.
C7_Witness ==
    \E t \in Threads : thread[t].pc = "receive" /\ thread[t].stale # {}

\* C8: a dispatch pass is never aborted: the step that asks the listener set
\* for its next entry does not end the receive task, whatever add_listener
\* and remove_listener did meanwhile.
C8_PassNeverAborted ==
    [][\A t \in Threads :
          thread[t].pc = "next" => thread'[t].pc # "crashed"]_vars

\* C9: receive is entered only from accept having returned true, on the same
\* listener and message; when accept returns, receive is entered exactly if
\* it returned true; and after receive the pass moves on past that listener,
\* each later listener of the pass lying beyond the iterator's position, so
\* no listener gets a message twice.
C9_AcceptGatesReceive ==
    [][\A t \in Threads :
          /\ (thread'[t].pc = "receive" /\ thread[t].pc # "receive") =>
                /\ thread[t].pc = "accept"
                /\ thread'[t].acc
                /\ thread'[t].cur = thread[t].cur
                /\ thread'[t].obj = thread[t].obj
          /\ (thread[t].pc = "accept" /\ thread'[t].pc \notin {"accept", "crashed"}) =>
                /\ (thread'[t].pc = "receive") <=> thread'[t].acc
                /\ thread'[t].pc \in {"receive", "next"}
          /\ (thread[t].pc = "receive" /\ thread'[t].pc # "receive") =>
                /\ thread'[t].pc \in {"next", "crashed"}
                /\ thread'[t].pc = "next" => thread'[t].pos = thread[t].cur
          /\ (thread[t].pc = "next" /\ thread'[t].pc = "accept") =>
                /\ thread'[t].cur > thread[t].pos
                /\ thread'[t].pos = thread'[t].cur
                /\ thread'[t].obj = thread[t].obj]_vars

\* The second listener of a pass is about to receive a message it accepted.
C9_Witness ==
    \E t \in Threads :
        thread[t].pc = "receive" /\ thread[t].acc /\ thread[t].cur = 2 /\ thread[t].used = 2

\* C10: a connect call made while the connection is alive returns False and
\* leaves the socket, the flag, the receive tasks and the listeners alone.
C10_ConnectWhileAliveNoop ==
    [][(is_connection_alive /\ cpc = "idle" /\
            (ConnectRefused \/ ConnectFail \/ ConnectNoSocket \/ \E tm \in BOOLEAN : ConnectOk(tm)))
        => (/\ ret' = [op |-> "connect", val |-> FALSE]
            /\ UNCHANGED <<socket, is_connection_alive, listen_thread, listeners, socks, nsock, thread>>)]_vars

\* A connect call on a live connection has returned False.
C10_Witness ==
    /\ is_connection_alive
    /\ cpc = "idle"
    /\ ret = [op |-> "connect", val |-> FALSE]
    /\ \E t \in Threads : InLoop(t)

\* C11: when a connect call made on a connection that was not alive has
\* opened the socket, the call returns True, the flag is set at the moment it
\* returns, and the receive thread has been started.
C11_ConnectSuccessReturnsTrue ==
    [][(cpc = "c49" /\ cpc' = "idle") =>
          /\ ret' = [op |-> "connect", val |-> TRUE]
          /\ is_connection_alive'
          /\ listen_thread' # 0
          /\ thread'[listen_thread'].pc # "none"]_vars

C13_Disconnect ==
    [][((\E wake \in BOOLEAN : Disconnect(wake)) \/ DisconnectRefused) =>
          IF is_connection_alive
          THEN /\ socks'[socket].state = "closed"
               /\ ~is_connection_alive'
               /\ ret' = [op |-> "disconnect", val |-> TRUE]
          ELSE /\ ret' = [op |-> "disconnect", val |-> FALSE]
               /\ UNCHANGED <<socket, is_connection_alive, socks>>]_vars

\* Both cases have happened: the first connection was closed by a disconnect
\* call, and a disconnect call on the second one, made after its peer closed
\* it, has returned False and left its socket open.
C13_Witness ==
    /\ socks[1].state = "closed"
    /\ socket = 2
    /\ socks[2].state = "open"
    /\ socks[2].eof
    /\ ~is_connection_alive
    /\ cpc = "idle"
    /\ ret = [op |-> "disconnect", val |-> FALSE]

\* C14: the read that returns zero bytes clears the flag and dispatches
\* nothing, and the thread that made it eventually terminates, no disconnect
\* call being needed.
C14_ZeroByteReadTerminates ==
    /\ [][\A t \in Threads :
            (thread'[t].zero /\ ~thread[t].zero) =>
                /\ ~is_connection_alive'
                /\ dispatched' = dispatched
                /\ reads' = reads]_vars
    /\ \A t \in Threads : thread[t].zero ~> Terminated(t)

\* C15: a send_data or send call made while the connection is not alive
\* raises and writes nothing to any socket.
C15_SendWhileNotAliveFails ==
    [][(/\ ~is_connection_alive
        /\ \/ \E c \in Chunks, ok \in BOOLEAN : SendData(c, ok)
           \/ \E m \in Messages, e \in BOOLEAN, ok \in BOOLEAN : Send(m, e, ok))
        => (~ret'.val /\ ret'.wrote = <<>> /\ ret'.sock = 0)]_vars

BeforeCRLF(d) ==
    IF HasCRLF(d)
    THEN LET k == CHOOSE i \in 1..(Len(d) - 1) :
                    /\ d[i] = CR /\ d[i + 1] = LF
                    /\ \A j \in 1..(i - 1) : ~(d[j] = CR /\ d[j + 1] = LF)
         IN SubSeq(d, 1, k - 1)
    ELSE d

InPass(t) == thread[t].pc \in {"next", "accept", "receive"}

\* C18: dispatch is sequential on the connection: a read returns data, and
\* the next message's dispatch begins, only when no dispatch pass is in
\* progress, so at most one pass is in progress at any time.
C18_DispatchSequential ==
    [][(Len(reads') > Len(reads) \/ Len(dispatched') > Len(dispatched)) =>
          \A t \in Threads : ~InPass(t)]_vars

C20_FrameEffects ==
    [][/\ listeners' # listeners =>
            \E l \in Listeners :
                \/ AddListener(l) /\ listeners' = listeners \cup {l}
                \/ RemoveListener(l) /\ listeners' = listeners \ {l}
       /\ ( \/ \E l \in Listeners : AddListener(l) \/ RemoveListener(l) \/ RemoveMissing(l)
            \/ GetIsConnectionAlive )
            => UNCHANGED <<socket, is_connection_alive, listen_thread, socks>>]_vars

\* The first connection's thread dispatched a message and has returned, the
\* connection was disconnected and connected again, and the second
\* connection's thread is giving its first message to listener 1, which no
\* remove_listener call has taken out.
C20_Witness ==
    /\ 1 \in listeners
    /\ 1 \notin removed
    /\ Len(dispatched) = 2
    /\ thread[1].pc = "done"
    /\ socks[1].state = "closed"
    /\ socket = 2
    /\ is_connection_alive
    /\ thread[2].pc = "receive"
    /\ thread[2].cur = 1
    /\ thread[2].src = 2
    /\ thread[2].rd = 2

====
